---- MODULE Spec2Model ----
(***************************************************************************)
(* Model of shared/services/beacon/client/types.go: the two scalar codecs  *)
(* (uinteger, byteArray), the struct decoding of a request record, and the *)
(* committee decoder with its pool of validator slices and Release.        *)
(*                                                                         *)
(* Strings are sequences of one-character strings.  A JSON value is a      *)
(* token [t, s, n]: t its kind, s the text of a string token, n the number *)
(* of elements of an array token.  A Go slice is its header               *)
(* [buf, len, cap]: buf identifies the backing array (0: nil), and the     *)
(* elements stored in the array are not part of the state.                 *)
(***************************************************************************)
EXTENDS Integers, Sequences, FiniteSets, TLC

\* ------------------------------------------------------------------ bounds

\* Width of uint64 and int in the model (the code's width is 64; TLC's
\* integers are 32 bits wide, so the width is scaled and all arithmetic on
\* uinteger values is taken modulo 2^UintBits).
UintBits == 7
\* Longest byte sequence drawn as an input of the byteArray codec.
MaxBytes == 2
\* Most records in one committees response.
MaxBatch == 2
\* Number of backing arrays the model allocates before allocation stops.
MaxBufs == 3

\* ------------------------------------------------------------ JSON tokens

JStr(s) == [t |-> "str", s |-> s, n |-> 0]
JNum == [t |-> "num", s |-> <<>>, n |-> 0]
JNull == [t |-> "null", s |-> <<>>, n |-> 0]
JAbsent == [t |-> "absent", s |-> <<>>, n |-> 0]
JArr(n) == [t |-> "arr", s |-> <<>>, n |-> n]
JBadArr == [t |-> "badarr", s |-> <<>>, n |-> 0]

\* json.Unmarshal(data, &dataStr) with dataStr a string: a string token is
\* stored, null leaves dataStr at "" with no error, anything else fails.
UnmarshalString(tok) ==
  CASE tok.t = "str" -> [ok |-> TRUE, s |-> tok.s]
    [] tok.t = "null" -> [ok |-> TRUE, s |-> <<>>]
    [] OTHER -> [ok |-> FALSE, s |-> <<>>]

\* ---------------------------------------------------------------- uinteger

Pow2(k) == 2 ^ k
UintMod == Pow2(UintBits)
UintVals == 0 .. (UintMod - 1)

DigitChars == <<"0", "1", "2", "3", "4", "5", "6", "7", "8", "9">>

IsDigit(ch) == \E d \in 1 .. 10 : DigitChars[d] = ch
DigitVal(ch) == (CHOOSE d \in 1 .. 10 : DigitChars[d] = ch) - 1

\* The decimal digits of n >= 0.
RECURSIVE FormatDigits(_)
FormatDigits(n) ==
  IF n < 10 THEN <<DigitChars[n + 1]>>
  ELSE Append(FormatDigits(n \div 10), DigitChars[(n % 10) + 1])

\* int(i): the same bits read as a signed integer.
ToInt(i) == IF i >= Pow2(UintBits - 1) THEN i - UintMod ELSE i

\* strconv.Itoa
Itoa(n) == IF n < 0 THEN <<"-">> \o FormatDigits(0 - n) ELSE FormatDigits(n)

\* strconv.ParseUint(s, 10, 64): no sign, digits only, not empty, in range.
RECURSIVE ParseDigits(_, _, _)
ParseDigits(s, k, acc) ==
  IF k > Len(s) THEN [ok |-> TRUE, v |-> acc, err |-> ""]
  ELSE IF ~IsDigit(s[k]) THEN [ok |-> FALSE, v |-> 0, err |-> "ErrSyntax"]
  ELSE IF acc * 10 + DigitVal(s[k]) >= UintMod
         THEN [ok |-> FALSE, v |-> 0, err |-> "ErrRange"]
  ELSE ParseDigits(s, k + 1, acc * 10 + DigitVal(s[k]))

ParseUint(s) ==
  IF s = <<>> THEN [ok |-> FALSE, v |-> 0, err |-> "ErrSyntax"]
  ELSE ParseDigits(s, 1, 0)

uintegerMarshalJSON(i) == JStr(Itoa(ToInt(i)))

uintegerUnmarshalJSON(tok) ==
  LET str == UnmarshalString(tok)
  IN  IF ~str.ok THEN [ok |-> FALSE, v |-> 0, err |-> "NotAString"]
      ELSE ParseUint(str.s)

\* --------------------------------------------------------------- byteArray

HexChars == <<"0", "1", "2", "3", "4", "5", "6", "7",
              "8", "9", "a", "b", "c", "d", "e", "f">>
UpperHexChars == <<"0", "1", "2", "3", "4", "5", "6", "7",
                   "8", "9", "A", "B", "C", "D", "E", "F">>

IsHex(ch) == \E d \in 1 .. 16 : HexChars[d] = ch \/ UpperHexChars[d] = ch
HexVal(ch) ==
  (CHOOSE d \in 1 .. 16 : HexChars[d] = ch \/ UpperHexChars[d] = ch) - 1

\* hex.EncodeToString
RECURSIVE EncodeToString(_)
EncodeToString(b) ==
  IF b = <<>> THEN <<>>
  ELSE <<HexChars[(Head(b) \div 16) + 1], HexChars[(Head(b) % 16) + 1]>>
         \o EncodeToString(Tail(b))

\* hex.DecodeString: pairs of hex digits; a bad digit or an odd length fails.
RECURSIVE DecodePairs(_, _, _)
DecodePairs(s, k, acc) ==
  IF k > Len(s) THEN [ok |-> TRUE, b |-> acc, err |-> ""]
  ELSE IF ~IsHex(s[k]) THEN [ok |-> FALSE, b |-> <<>>, err |-> "InvalidByte"]
  ELSE IF k = Len(s) THEN [ok |-> FALSE, b |-> <<>>, err |-> "ErrLength"]
  ELSE IF ~IsHex(s[k + 1])
         THEN [ok |-> FALSE, b |-> <<>>, err |-> "InvalidByte"]
  ELSE DecodePairs(s, k + 2, Append(acc, HexVal(s[k]) * 16 + HexVal(s[k + 1])))

DecodeString(s) == DecodePairs(s, 1, <<>>)

\* hexutil.AddPrefix / hexutil.RemovePrefix (shared/utils/hex)
AddPrefix(s) == <<"0", "x">> \o s
RemovePrefix(s) ==
  IF Len(s) >= 2 /\ s[1] = "0" /\ s[2] = "x" THEN SubSeq(s, 3, Len(s)) ELSE s

byteArrayMarshalBare(b) == JStr(EncodeToString(b))
byteArrayMarshalJSON(b) == JStr(AddPrefix(EncodeToString(b)))

byteArrayUnmarshalJSON(tok) ==
  LET str == UnmarshalString(tok)
  IN  IF ~str.ok THEN [ok |-> FALSE, b |-> <<>>, err |-> "NotAString"]
      ELSE DecodeString(RemovePrefix(str.s))

\* ------------------------------------------------------- request records

\* A voluntary-exit document: whether "message" is present, the tokens of
\* message.epoch, message.validator_index and signature (JAbsent: no key).
ByteVals == {0, 10, 173, 222, 255}

ExitDocs ==
  [message : BOOLEAN,
   epoch : {JAbsent, JStr(<<"5">>), JStr(<<"x">>)},
   validator_index : {JAbsent, JStr(<<"7">>)},
   signature : {JAbsent, JStr(<<"0", "x", "d", "e", "a", "d">>),
                JStr(<<"0", "x", "z", "z">>)}]

ZeroExit == [Epoch |-> 0, ValidatorIndex |-> <<>>, Signature |-> <<>>]

\* json.Unmarshal into a VoluntaryExitRequest: each key of the document is
\* decoded into its field; a field whose key is absent keeps its zero value.
\* A failing field ends the decode with the scalar codec's own error.
DecodeVoluntaryExitRequest(doc) ==
  LET hasEpoch == doc.message /\ doc.epoch.t # "absent"
      hasIndex == doc.message /\ doc.validator_index.t # "absent"
      hasSig == doc.signature.t # "absent"
      ep == uintegerUnmarshalJSON(doc.epoch)
      vi == UnmarshalString(doc.validator_index)
      sig == byteArrayUnmarshalJSON(doc.signature)
  IN  IF hasEpoch /\ ~ep.ok
        THEN [ok |-> FALSE, err |-> ep.err, v |-> ZeroExit]
      ELSE IF hasIndex /\ ~vi.ok
        THEN [ok |-> FALSE, err |-> "NotAString", v |-> ZeroExit]
      ELSE IF hasSig /\ ~sig.ok
        THEN [ok |-> FALSE, err |-> sig.err, v |-> ZeroExit]
      ELSE [ok |-> TRUE, err |-> "",
            v |-> [Epoch |-> IF hasEpoch THEN ep.v ELSE 0,
                   ValidatorIndex |-> IF hasIndex THEN vi.s ELSE <<>>,
                   Signature |-> IF hasSig THEN sig.b ELSE <<>>]]

\* ------------------------------------------------------- committee decode

\* make([]string, 0, 1024)
InitCap == 1024

Callers == {"a", "b"}

NilSlice == [buf |-> 0, len |-> 0, cap |-> 0]
ZeroCommittee == [Index |-> 0, Slot |-> 0, Validators |-> NilSlice]

NewSliceFull(nb) == [buf |-> nb, len |-> InitCap, cap |-> InitCap]
\* validatorSlicePool.New
NewSlice(nb) == [buf |-> nb, len |-> 0, cap |-> InitCap]

\* validatorSlicePool.Get(): an arbitrary item of the pool, or, when the pool
\* is empty or Get chooses to ignore it, the result of New.
PoolGet(p, nb) ==
  {[s |-> x, new |-> FALSE] : x \in p}
    \cup (IF nb <= MaxBufs THEN {[s |-> NewSlice(nb), new |-> TRUE]} ELSE {})

PoolAfterGetKeep(p, g) == p
\* Get removes the item it returns from the pool.
PoolAfterGet(p, g) == IF g.new THEN p ELSE p \ {g.s}

\* validatorSlicePool.Put
PoolPut(p, v) == p \cup {v}

\* Numbers of validators in a committee document.
ValidatorCounts == {3, 1025}

\* The capacity of the array a decode allocates when n elements do not fit:
\* at least n, and the least is taken.
GrowCap(n) == n

\* A committee document: obj is whether the body is a JSON object; index,
\* slot and validators are the raw values kept by the partial parse.
IndexToks == {JAbsent, JNull, JStr(<<"3">>), JStr(<<"x">>)}
SlotToks == {JAbsent, JNull, JStr(<<"1", "0", "0">>), JStr(FormatDigits(UintMod))}
ValidatorsToks == {JAbsent, JNull, JBadArr} \cup {JArr(n) : n \in ValidatorCounts}

GoodBody(b) ==
  /\ b.index = JStr(<<"3">>)
  /\ b.slot = JStr(<<"1", "0", "0">>)
  /\ b.validators.t = "arr"

\* The documents drawn: the well-formed ones, those with one field absent,
\* null or malformed, and a body that is no JSON object.
Bodies ==
  {b \in [obj : {TRUE}, index : IndexToks, slot : SlotToks,
          validators : ValidatorsToks] :
     \/ GoodBody(b)
     \/ \E f \in {"index", "slot", "validators"} :
          GoodBody([b EXCEPT ![f] = IF f = "index" THEN JStr(<<"3">>)
                                    ELSE IF f = "slot" THEN JStr(<<"1", "0", "0">>)
                                    ELSE JArr(3)])
          /\ (f # "validators" => b.validators = JArr(3))}
    \cup {[obj |-> FALSE, index |-> JAbsent, slot |-> JAbsent,
           validators |-> JAbsent]}

\* committee["f"] is a nil pointer when the key is absent or its value null.
IsNilRaw(tok) == tok.t \in {"absent", "null"}

\* json.Unmarshal(*committee["validators"], &c.Validators): the elements are
\* stored in the preallocated array when they fit, in a new one otherwise; a
\* malformed array leaves the slice as it was.
UnmarshalValidators(tok, v, growBuf, growCap) ==
  IF tok.t # "arr" THEN [ok |-> FALSE, v |-> v, grew |-> FALSE]
  ELSE IF tok.n <= v.cap
    THEN [ok |-> TRUE, v |-> [v EXCEPT !.len = tok.n], grew |-> FALSE]
  ELSE [ok |-> TRUE, v |-> [buf |-> growBuf, len |-> tok.n, cap |-> growCap],
        grew |-> TRUE]

\* How a call ends: "ok", "error" with the error of the partial parse or of
\* a field decoder, or "panic".
Outcome(kind, err) == [kind |-> kind, err |-> err]

\* Committee.UnmarshalJSON on a zero record c, with pooledSlice the slice Get
\* returned: the record as the call leaves it, and how the call ends.
CommitteeUnmarshalJSON(body, pooledSlice, growBuf, growCap) ==
  LET c0 == [ZeroCommittee EXCEPT !.Validators = pooledSlice]
      idx == uintegerUnmarshalJSON(body.index)
      c1 == [c0 EXCEPT !.Index = idx.v]
      slt == uintegerUnmarshalJSON(body.slot)
      c2 == [c1 EXCEPT !.Slot = slt.v]
      val == UnmarshalValidators(body.validators, c2.Validators, growBuf, growCap)
      c3 == [c2 EXCEPT !.Validators = val.v]
      R(c, kind, err, grew) ==
        [c |-> c, res |-> Outcome(kind, err), grew |-> grew]
  IN  IF ~body.obj THEN R(c0, "error", "error unmarshalling committee json", FALSE)
      ELSE IF IsNilRaw(body.index) THEN R(c0, "panic", "nil pointer dereference", FALSE)
      ELSE IF ~idx.ok THEN R(c0, "error", idx.err, FALSE)
      ELSE IF IsNilRaw(body.slot) THEN R(c1, "panic", "nil pointer dereference", FALSE)
      ELSE IF ~slt.ok THEN R(c1, "error", slt.err, FALSE)
      ELSE IF IsNilRaw(body.validators)
        THEN R(c2, "panic", "nil pointer dereference", FALSE)
      ELSE IF ~val.ok THEN R(c2, "error", "cannot unmarshal into []string", FALSE)
      ELSE R(c3, "ok", "", val.grew)

PoolAfterUnmarshalPutBack(p, g, res) ==
  IF res.kind = "ok" THEN PoolAfterGet(p, g) ELSE PoolAfterGet(p, g) \cup {g.s}
\* The pool after a call of Committee.UnmarshalJSON: the slice Get returned
\* has left it, and no return path puts a slice back.
PoolAfterUnmarshal(p, g, res) == PoolAfterGet(p, g)

ReleasedSliceKeep(v) == v
\* committee.Validators[:0]
ReleasedSlice(v) == [v EXCEPT !.len = 0]

\* Release ranges over copies of the records: c.Data is not written.
DataAfterRelease(d, i, v) == d

ReleaseNextSkip(i) == i + 2
\* The range loop of Release moves to the next record.
ReleaseNext(i) == i + 1

\* ------------------------------------------------------------------ state

VARIABLES
  validatorSlicePool,  \* the slice headers the pool holds
  nextBuf,   \* the next backing array to be allocated
  callers,   \* the goroutines that decode and release responses
  pc,        \* each caller's position
  want,      \* the number of records of the response a caller decodes
  body,      \* the document of the caller's last Committee.UnmarshalJSON
  data,      \* c.Data of the caller's response, the record under decode last
  result,    \* how the caller's last Committee.UnmarshalJSON ended
  acq,       \* what Get returned to each call for the current response
  relIdx,    \* position of the range loop of Release
  putLog,    \* the slices the caller's last Release has put
  history,   \* whether putLog is kept while the next response is decoded
  crashed,   \* a panic has ended the process
  cin,       \* input of a codec call
  cout       \* result of a codec call

vars == <<validatorSlicePool, nextBuf, callers, pc, want, body, data, result,
          acq, relIdx, putLog, history, crashed, cin, cout>>

NoBody == [obj |-> FALSE, index |-> JAbsent, slot |-> JAbsent,
           validators |-> JAbsent]
NoOutcome == [kind |-> "none", err |-> ""]

NoInput == [kind |-> "none", u |-> 0, b |-> <<>>, tok |-> JAbsent,
            doc |-> [message |-> FALSE, epoch |-> JAbsent,
                     validator_index |-> JAbsent, signature |-> JAbsent]]
NoOutput == [done |-> FALSE, tok |-> JAbsent, ok |-> FALSE, err |-> "",
             u |-> 0, b |-> <<>>, v |-> ZeroExit]

InitPool(cs, h) ==
  /\ validatorSlicePool = {}
  /\ history = h
  /\ nextBuf = 1
  /\ callers = cs
  /\ pc = [c \in Callers |-> "idle"]
  /\ want = [c \in Callers |-> 0]
  /\ body = [c \in Callers |-> NoBody]
  /\ data = [c \in Callers |-> <<>>]
  /\ result = [c \in Callers |-> NoOutcome]
  /\ acq = [c \in Callers |-> <<>>]
  /\ relIdx = [c \in Callers |-> 1]
  /\ putLog = [c \in Callers |-> <<>>]
  /\ crashed = FALSE

Init ==
  /\ InitPool(Callers, FALSE)
  /\ cin = NoInput
  /\ cout = NoOutput

InitSeq ==
  /\ InitPool({"a"}, TRUE)
  /\ cin = NoInput
  /\ cout = NoOutput

\* ---------------------------------------------------------------- actions

\* json.Unmarshal of a committees response with n records begins.
StartDecode(c) ==
  /\ ~crashed
  /\ c \in callers
  /\ pc[c] = "idle"
  /\ \E n \in 1 .. MaxBatch : want' = [want EXCEPT ![c] = n]
  /\ pc' = [pc EXCEPT ![c] = "decoding"]
  /\ UNCHANGED <<validatorSlicePool, nextBuf, callers, body, data, result,
                 acq, relIdx, putLog, history, crashed, cin, cout>>

\* Committee.UnmarshalJSON on the next record of the caller's response.
UnmarshalJSON(c) ==
  /\ ~crashed
  /\ c \in callers
  /\ pc[c] = "decoding"
  /\ \E b \in Bodies, g \in PoolGet(validatorSlicePool, nextBuf) :
       LET nb == IF g.new THEN nextBuf + 1 ELSE nextBuf
           r == CommitteeUnmarshalJSON(b, g.s, nb, GrowCap(b.validators.n))
           d == Append(data[c], r.c)
       IN  /\ r.grew => nb <= MaxBufs
           /\ validatorSlicePool' =
                PoolAfterUnmarshal(validatorSlicePool, g, r.res)
           /\ nextBuf' = IF r.grew THEN nb + 1 ELSE nb
           /\ body' = [body EXCEPT ![c] = b]
           /\ data' = [data EXCEPT ![c] = d]
           /\ result' = [result EXCEPT ![c] = r.res]
           /\ acq' = [acq EXCEPT ![c] = Append(acq[c], g)]
           /\ pc' = [pc EXCEPT ![c] =
                       CASE r.res.kind = "panic" -> "panicked"
                         [] r.res.kind = "error" -> "failed"
                         [] Len(d) = want[c] -> "decoded"
                         [] OTHER -> "decoding"]
           /\ crashed' = (r.res.kind = "panic")
  /\ UNCHANGED <<callers, want, relIdx, putLog, history, cin, cout>>

\* One turn of the loop of CommitteesResponse.Release; Release returns
\* after the turn of the last record.
Release(c) ==
  /\ ~crashed
  /\ c \in callers
  /\ pc[c] \in {"decoded", "releasing"}
  /\ LET i == relIdx[c]
         v == ReleasedSlice(data[c][i].Validators)
         j == ReleaseNext(i)
     IN  /\ validatorSlicePool' = PoolPut(validatorSlicePool, v)
         /\ data' = [data EXCEPT ![c] = DataAfterRelease(data[c], i, v)]
         /\ putLog' = [putLog EXCEPT ![c] =
                         IF i = 1 THEN <<v>> ELSE Append(putLog[c], v)]
         /\ relIdx' = [relIdx EXCEPT ![c] = j]
         /\ pc' = [pc EXCEPT ![c] =
                     IF j > Len(data[c]) THEN "released" ELSE "releasing"]
  /\ UNCHANGED <<nextBuf, callers, want, body, result, acq, history, crashed,
                 cin, cout>>

\* The caller lets go of a released response, or of one whose decode failed.
Drop(c) ==
  /\ ~crashed
  /\ c \in callers
  /\ pc[c] \in {"released", "failed"}
  /\ pc' = [pc EXCEPT ![c] = "idle"]
  /\ want' = [want EXCEPT ![c] = 0]
  /\ body' = [body EXCEPT ![c] = NoBody]
  /\ data' = [data EXCEPT ![c] = <<>>]
  /\ result' = [result EXCEPT ![c] = NoOutcome]
  /\ acq' = [acq EXCEPT ![c] = <<>>]
  /\ relIdx' = [relIdx EXCEPT ![c] = 1]
  /\ putLog' = [putLog EXCEPT ![c] =
                  IF history /\ pc[c] = "released" THEN putLog[c] ELSE <<>>]
  /\ UNCHANGED <<validatorSlicePool, nextBuf, callers, history, crashed, cin,
                 cout>>

\* sync.Pool drops an item it holds (its cleanup at garbage collection).
PoolCleanup ==
  /\ ~crashed
  /\ \E s \in validatorSlicePool : validatorSlicePool' = validatorSlicePool \ {s}
  /\ UNCHANGED <<nextBuf, callers, pc, want, body, data, result, acq, relIdx,
                 putLog, history, crashed, cin, cout>>

Next ==
  \/ \E c \in Callers : StartDecode(c)
  \/ \E c \in Callers : UnmarshalJSON(c)
  \/ \E c \in Callers : Release(c)
  \/ \E c \in Callers : Drop(c)
  \/ PoolCleanup

Spec == Init /\ [][Next]_vars

SpecSeq == InitSeq /\ [][Next]_vars

\* ------------------------------------------------------------ codec calls

RECURSIVE SeqsUpTo(_, _)
SeqsUpTo(S, n) ==
  IF n = 0 THEN {<<>>}
  ELSE LET shorter == SeqsUpTo(S, n - 1)
       IN  shorter \cup {Append(q, x) : q \in shorter, x \in S}

UintToks ==
  {JStr(<<"a", "b", "c">>), JStr(FormatDigits(UintMod)), JStr(<<>>),
   JStr(<<"0", "7">>), JStr(<<"-", "1">>), JNum, JNull}

BytesToks ==
  {JStr(<<"0", "x", "z", "z">>), JStr(<<"0", "x", "d", "e", "a", "d">>),
   JStr(<<"d", "e", "a", "d">>), JStr(<<"D", "E", "A", "D">>),
   JStr(<<"0", "x", "d">>), JStr(<<>>), JNum, JNull}

CodecInputs ==
  {[NoInput EXCEPT !.kind = "uint", !.u = u] : u \in UintVals}
    \cup {[NoInput EXCEPT !.kind = "utok", !.tok = k] : k \in UintToks}
    \cup {[NoInput EXCEPT !.kind = "bytes", !.b = b] :
            b \in SeqsUpTo(ByteVals, MaxBytes)}
    \cup {[NoInput EXCEPT !.kind = "btok", !.tok = k] : k \in BytesToks}
    \cup {[NoInput EXCEPT !.kind = "exit", !.doc = d] : d \in ExitDocs}

InitCodec ==
  /\ InitPool({}, FALSE)
  /\ cin \in CodecInputs
  /\ cout = NoOutput

CodecStep(kind, out) ==
  /\ cin.kind = kind
  /\ ~cout.done
  /\ cout' = out
  /\ UNCHANGED <<validatorSlicePool, nextBuf, callers, pc, want, body, data,
                 result, acq, relIdx, putLog, history, crashed, cin>>

\* uinteger.MarshalJSON, then uinteger.UnmarshalJSON of its output.
UintEncodeDecode ==
  LET tok == uintegerMarshalJSON(cin.u)
      r == uintegerUnmarshalJSON(tok)
  IN  CodecStep("uint", [NoOutput EXCEPT !.done = TRUE, !.tok = tok,
                                         !.ok = r.ok, !.err = r.err, !.u = r.v])

\* uinteger.UnmarshalJSON
UintDecode ==
  LET r == uintegerUnmarshalJSON(cin.tok)
  IN  CodecStep("utok", [NoOutput EXCEPT !.done = TRUE, !.ok = r.ok,
                                         !.err = r.err, !.u = r.v])

\* byteArray.MarshalJSON, then byteArray.UnmarshalJSON of its output.
BytesEncodeDecode ==
  LET tok == byteArrayMarshalJSON(cin.b)
      r == byteArrayUnmarshalJSON(tok)
  IN  CodecStep("bytes", [NoOutput EXCEPT !.done = TRUE, !.tok = tok,
                                          !.ok = r.ok, !.err = r.err, !.b = r.b])

\* byteArray.UnmarshalJSON
BytesDecode ==
  LET r == byteArrayUnmarshalJSON(cin.tok)
  IN  CodecStep("btok", [NoOutput EXCEPT !.done = TRUE, !.ok = r.ok,
                                         !.err = r.err, !.b = r.b])

\* json.Unmarshal of a voluntary-exit document.
ExitDecode ==
  LET r == DecodeVoluntaryExitRequest(cin.doc)
  IN  CodecStep("exit", [NoOutput EXCEPT !.done = TRUE, !.ok = r.ok,
                                         !.err = r.err, !.v = r.v])

NextCodec ==
  \/ UintEncodeDecode
  \/ UintDecode
  \/ BytesEncodeDecode
  \/ BytesDecode
  \/ ExitDecode

SpecCodec == InitCodec /\ [][NextCodec]_vars

\* ------------------------------------------------------------------ claims

Last(q) == q[Len(q)]

\* C1: for every value v of the unsigned range, decoding the output of
\* uinteger.MarshalJSON(v) with uinteger.UnmarshalJSON succeeds and yields v.
UintRoundTrip ==
  (cin.kind = "uint" /\ cout.done) => (cout.ok /\ cout.u = cin.u)

BadField(b, f) ==
  /\ b.obj
  /\ \/ b[f].t \in {"absent", "null"}
     \/ f \in {"index", "slot"} /\ ~uintegerUnmarshalJSON(b[f]).ok
     \/ f = "validators" /\ b[f].t # "arr"

\* C2: when index, slot or validators is absent, null or malformed,
\* Committee.UnmarshalJSON ends by returning a decode error, and in no other
\* way (no crash, no success).
CommitteeBadFieldIsError ==
  \A c \in Callers :
    (result[c].kind # "none"
       /\ \E f \in {"index", "slot", "validators"} : BadField(body[c], f))
      => result[c].kind = "error"

\* A record of a response whose buffer Release has not yet put.
Unreleased(c, i) ==
  /\ i \in 1 .. Len(data[c])
  /\ pc[c] # "released"
  /\ i >= relIdx[c]

Holders == {h \in Callers \X (1 .. MaxBatch) : Unreleased(h[1], h[2])}
BufOf(h) == data[h[1]][h[2]].Validators.buf

\* C3: no backing array is held by two unreleased records at once, in one
\* response or in the responses of two callers, and none is in the pool while
\* an unreleased record holds it.
ExclusiveOwnership ==
  /\ \A h1, h2 \in Holders : (h1 # h2) => BufOf(h1) # BufOf(h2)
  /\ \A h \in Holders : \A s \in validatorSlicePool : s.buf # BufOf(h)

ExclusiveOwnershipWitness ==
  \E c1, c2 \in Callers :
    /\ c1 # c2
    /\ pc[c1] = "decoded" /\ Len(data[c1]) = 2
    /\ pc[c2] = "decoding" /\ Len(data[c2]) = 1
    /\ \E k \in 1 .. 2 : ~acq[c1][k].new
    /\ ~acq[c2][1].new

Truncated(v) == [buf |-> v.buf, len |-> 0, cap |-> v.cap]

\* C4 as stated: after Release returns, every record of the response has a
\* validator sequence of length zero, and each slice put has length zero
\* and the capacity it had in the record.
ReleaseTruncatesRecords ==
  \A c \in Callers :
    pc[c] = "released" =>
      \A i \in 1 .. Len(data[c]) :
        /\ data[c][i].Validators.len = 0
        /\ putLog[c][i] = Truncated(data[c][i].Validators)

ReleaseTurn(c) == pc[c] \in {"decoded", "releasing"} /\ relIdx'[c] # relIdx[c]

\* C4, amended: each turn of Release puts the record's slice with length
\* zero and its capacity kept, and leaves the record itself as it was; when
\* Release returns, one such slice has been put for every record.
ReleasePutsTruncatedCopies ==
  [][\A c \in Callers :
       ReleaseTurn(c) =>
         LET v == data[c][relIdx[c]].Validators
         IN  /\ data'[c] = data[c]
             /\ validatorSlicePool' = validatorSlicePool \cup {Truncated(v)}
             /\ Last(putLog'[c]) = Truncated(v)
             /\ pc'[c] = "released" =>
                  /\ Len(putLog'[c]) = Len(data[c])
                  /\ \A i \in 1 .. Len(data[c]) :
                       putLog'[c][i] = Truncated(data[c][i].Validators)]_vars

ReleasePutsWitness ==
  \E c \in Callers :
    /\ pc[c] = "released"
    /\ Len(data[c]) = 2
    /\ data[c][1].Validators.len = 3
    /\ data[c][2].Validators.len = 1025
    /\ putLog[c][1].len = 0
    /\ putLog[c][2].cap = 1025

Decoding(c) == pc[c] \in {"decoding", "decoded", "failed", "panicked"}

\* C5 as stated: after a response of N records is decoded and released, the
\* next N acquires each return one of the N slices put, none a new
\* allocation, and the acquire after those is a new allocation.
NextAcquiresAreTheReleased ==
  \A c \in Callers :
    (Decoding(c) /\ putLog[c] # <<>>) =>
      \A k \in 1 .. Len(acq[c]) :
        /\ k <= Len(putLog[c]) =>
             /\ ~acq[c][k].new
             /\ \E i \in 1 .. Len(putLog[c]) : putLog[c][i] = acq[c][k].s
        /\ k = Len(putLog[c]) + 1 => acq[c][k].new

\* C5, amended: a Release of a response of N records puts exactly N slices,
\* of N different backing arrays, each of length zero; the acquires that
\* follow return different backing arrays, each a slice of length zero.
ReleaseAccounting ==
  \A c \in Callers :
    /\ pc[c] = "released" =>
         /\ Len(putLog[c]) = Len(data[c])
         /\ \A i, j \in 1 .. Len(putLog[c]) :
              /\ putLog[c][i].len = 0
              /\ (i # j) => putLog[c][i].buf # putLog[c][j].buf
    /\ \A k, m \in 1 .. Len(acq[c]) :
         /\ acq[c][k].s.len = 0
         /\ (k # m) => acq[c][k].s.buf # acq[c][m].s.buf

ReleaseAccountingWitness ==
  \E c \in Callers :
    /\ Decoding(c)
    /\ Len(putLog[c]) = 2
    /\ Len(acq[c]) = 2
    /\ \A k \in 1 .. 2 :
         /\ ~acq[c][k].new
         /\ \E i \in 1 .. 2 : putLog[c][i] = acq[c][k].s

Acquires(c) == Len(acq'[c]) = Len(acq[c]) + 1

\* C6 as stated: every acquire returns a slice of length zero, taken from
\* the pool when the pool is not empty and new with capacity 1024 otherwise;
\* and the acquire that follows acquire and release returns a slice of
\* length zero whose capacity is at least that of the slice released.
AcquirePrefersPool ==
  [][\A c \in Callers :
       Acquires(c) =>
         LET g == Last(acq'[c])
         IN  /\ g.s.len = 0
             /\ (validatorSlicePool # {}) => (~g.new /\ g.s \in validatorSlicePool)
             /\ (validatorSlicePool = {}) => (g.new /\ g.s.cap = 1024)
             /\ (Len(putLog[c]) = 1 /\ Len(acq'[c]) = 1) =>
                  g.s.cap >= putLog[c][1].cap]_vars

\* C6, amended: an acquire is never blocked while an array can be allocated,
\* and returns a slice of length zero: either one taken out of the pool, its
\* capacity kept, or a new one of capacity 1024, which is what it returns
\* when the pool is empty and what it may return when the pool is not.  The
\* capacity returned is at least 1024.
AcquireContract ==
  [][\A c \in Callers :
       /\ (c \in callers /\ pc[c] = "decoding" /\ ~crashed /\ nextBuf <= MaxBufs)
            => ENABLED UnmarshalJSON(c)
       /\ Acquires(c) =>
            LET g == Last(acq'[c])
            IN  /\ g.s.len = 0
                /\ g.s.cap >= 1024
                /\ \/ /\ ~g.new
                      /\ g.s \in validatorSlicePool
                      /\ validatorSlicePool' = validatorSlicePool \ {g.s}
                   \/ g.new /\ g.s.cap = 1024 /\ g.s.buf = nextBuf
                        /\ validatorSlicePool' = validatorSlicePool
                /\ (validatorSlicePool = {}) => g.new]_vars

AcquireContractWitness ==
  \E c \in Callers :
    /\ Decoding(c)
    /\ Len(putLog[c]) = 1
    /\ putLog[c][1].cap = 1025
    /\ Len(acq[c]) >= 1
    /\ acq[c][1].s = putLog[c][1]

Populated(b, rec) ==
  /\ rec.Index = uintegerUnmarshalJSON(b.index).v
  /\ rec.Slot = uintegerUnmarshalJSON(b.slot).v
  /\ rec.Validators.len = b.validators.n
  /\ rec.Validators.buf # 0

\* C7: a call of Committee.UnmarshalJSON ends in success with index, slot
\* and validators populated from the document, or in an error with none of
\* the record's fields set by the call.
AllOrNothing ==
  \A c \in Callers :
    /\ result[c].kind = "ok" => Populated(body[c], Last(data[c]))
    /\ result[c].kind = "error" => Last(data[c]) = ZeroCommittee

\* C8: decoding a voluntary-exit document that lacks the signature field
\* fails with MissingField; no document lacking a required field decodes
\* successfully.
MissingSignatureIsError ==
  (cin.kind = "exit" /\ cout.done /\ cin.doc.signature.t = "absent")
    => (~cout.ok /\ cout.err = "MissingField")

LowerHex == {HexChars[d] : d \in 1 .. 16}

\* C9: byteArray.MarshalJSON(b) is the prefix followed by the lower-case hex
\* of b, and byteArray.UnmarshalJSON of it succeeds and yields b.
BytesRoundTrip ==
  (cin.kind = "bytes" /\ cout.done) =>
    LET s == cout.tok.s
    IN  /\ cout.tok.t = "str"
        /\ Len(s) = 2 + 2 * Len(cin.b)
        /\ s[1] = "0" /\ s[2] = "x"
        /\ \A k \in 1 .. Len(cin.b) :
             /\ s[2 * k + 1] \in LowerHex
             /\ s[2 * k + 2] \in LowerHex
             /\ HexVal(s[2 * k + 1]) * 16 + HexVal(s[2 * k + 2]) = cin.b[k]
        /\ cout.ok
        /\ cout.b = cin.b

BytesRoundTripWitness ==
  /\ cin.kind = "bytes"
  /\ cin.b = <<>>
  /\ cout.done
  /\ cout.tok = JStr(<<"0", "x">>)
  /\ cout.ok
  /\ cout.b = <<>>

InPool(buf) == \E s \in validatorSlicePool : s.buf = buf

\* C10: every call of Committee.UnmarshalJSON acquires one slice whether or
\* not it succeeds, and no slice acquired for a response is in the pool
\* before Release puts it: not after a failed call either.
FailedDecodeKeepsBuffers ==
  \A c \in Callers :
    /\ Len(acq[c]) = Len(data[c])
    /\ Decoding(c) =>
         \A k \in 1 .. Len(acq[c]) :
           /\ ~InPool(acq[c][k].s.buf)
           /\ ~InPool(data[c][k].Validators.buf)

FailedDecodeWitness ==
  \E c \in Callers :
    /\ pc[c] = "failed"
    /\ result[c].kind = "error"
    /\ Len(data[c]) = 2
    /\ ~acq[c][2].new
    /\ validatorSlicePool # {}

====
